---- MODULE Spec2Model ----
(***************************************************************************)
(* Tag-service packets of pycomm3 (pycomm3/packets/logix.py): the          *)
(* fragmented read and write loops, the read-modify-write bit masks and    *)
(* the multi-service request with the decoding of its reply, the          *)
(* construction of the requests and the decoding of a read reply.          *)
(*                                                                         *)
(* One logical operation is modelled per behaviour; `kind` says which.     *)
(* Bytes are naturals 0..255 and byte strings are sequences of them.       *)
(* The send() drivers still use the names bytes_, parse_bytes and          *)
(* _packed_type; they are read as the attributes the classes of the file   *)
(* define for them: value_bytes, parse_value and _packed_data_type.  They  *)
(* also build the response objects with the argument lists of an earlier   *)
(* constructor; each such call is read as "the response of that class,     *)
(* parsed from this reply".                                                *)
(***************************************************************************)
EXTENDS Integers, Sequences, FiniteSets, TLC

(* ---------------------------------------------------------------- bounds *)
\* most "insufficient packets" rounds the target answers before it must end
MaxRounds == 2
\* longest payload chunk of one fragmented-read reply
MaxChunk == 2
\* longest write value (bytes, or elements)
MaxLen == 4
\* largest negotiated connection size of the model
MaxConn == 19
\* most set_bit calls on one read-modify-write request
MaxSetBits == 3
\* most operations of one multi-service request, and sub-replies of its reply
MaxBatch == 3

(* ------------------------------------------------------------- constants *)
SUCCESS == 0
INSUFFICIENT_PACKETS == 6
\* the 9 bytes of "other stuff in the path" of a WriteFragmented request
PathOverhead == 9
\* offset = None : the fragmented read loop has ended
NoOffset == -1
\* width in bits of the initial _and_mask 0xFFFF_FFFF_FFFF_FFFF
MaskBits == 64
\* padding = bytes(46)
PaddingLen == 46

STRUCTURE_READ_REPLY == <<160, 2>>
FailStatuses == {4, 5}
GenericError == "One or more fragment responses failed"
ReadPathError == "Failed to build request path for tag"
WritePathError == "Failed to create request path for tag"
request_path == <<145, 2, 84, 49>>

(* --------------------------------------------------------------- helpers *)
Min(a, b) == IF a < b THEN a ELSE b

RECURSIVE Join(_)
\* b''.join(chunks)
Join(chunks) ==
    IF chunks = <<>> THEN <<>> ELSE Head(chunks) \o Join(Tail(chunks))

RECURSIVE SumLen(_)
SumLen(chunks) ==
    IF chunks = <<>> THEN 0 ELSE Len(Head(chunks)) + SumLen(Tail(chunks))

\* s[a:b] of Python for 0 <= a, 0 <= b
Slice(s, a, b) == SubSeq(s, a + 1, Min(b, Len(s)))

SeqsUpTo(S, n) == UNION {[1..k -> S] : k \in 0..n}

(* ------------------------------------------------ external collaborators *)
\* DataTypeSize / Pack of the atomic types used here
TypeWidth(data_type) ==
    CASE data_type = "SINT" -> 1
      [] data_type = "INT" -> 2
      [] data_type = "DINT" -> 4
      [] data_type = "DWORD" -> 4
      [] data_type = "LINT" -> 8

RECURSIVE PackLE(_, _)
\* Pack[data_type](x): little-endian, w bytes
PackLE(x, w) == IF w = 0 THEN <<>> ELSE <<x % 256>> \o PackLE(x \div 256, w - 1)

Pack(data_type, x) == PackLE(x, TypeWidth(data_type))

\* Pack.uint(DataType[name]) is 2 bytes; the struct form is b'\xA0\x02' + 2 bytes
PackedDataType(tag_type, data_type) ==
    IF tag_type = "struct" THEN <<160, 2, 7, 0>>
    ELSE CASE data_type = "SINT" -> <<194, 0>>
           [] data_type = "INT" -> <<195, 0>>
           [] OTHER -> <<196, 0>>

\* parse_read_reply(data, tag_info, elements): kept as the call it was given
ParseReadReply(data, tag_info, elems) ==
    [data |-> data, tag_info |-> tag_info, elements |-> elems]

\* the status text a failed reply carries as its error
StatusError(status) == IF status = 4 THEN "Path segment error" ELSE "Path destination unknown"

(* ---------------------------------------------------------------- state *)
VARIABLES
    kind,             \* "read" | "write" | "rmw": the request class of this run
    error,            \* self.error ("" when none)
    tag_info,         \* tag_info: [tag_type, data_type_name]
    elements,         \* self.elements
    value,            \* self.value of a write (bytes, or a list of elements)
    value_is_bytes,   \* isinstance(self.value, bytes)
    connection_size,  \* self._driver.connection_size
    requests,         \* self.requests of a multi-service request
    pc,               \* position inside send()
    offset,           \* local offset of send()
    segments,         \* the segments generator of the write, as a list
    i,                \* index of the segment being written
    responses,        \* local responses of send()
    result,           \* what send() returned (or raised)
    sent,             \* every message handed to self._send, in order
    received,         \* number of self._receive calls that returned
    replies,          \* what the target answered, in order: [status, payload]
    and_mask,         \* self._and_mask, as the set of its 1 bits
    or_mask,          \* self._or_mask, as the set of its 1 bits
    bits,             \* self.bits
    calls,            \* the set_bit calls made: [bit, value]
    msg               \* self._msg as build_request / build_message left it

vars == <<kind, error, tag_info, elements, value, value_is_bytes, connection_size, requests,
          pc, offset, segments, i, responses, result, sent, received, replies,
          and_mask, or_mask, bits, calls, msg>>

opVars == <<kind, error, tag_info, elements, value, value_is_bytes, connection_size,
            requests>>
rmwVars == <<and_mask, or_mask, bits, calls, msg>>

NoResult == [cls |-> "none"]

(* ------------------------------------------------------------ responses *)
\* SendUnitDataResponsePacket.is_valid for a tag service reply
is_valid(response) ==
    /\ response.error = ""
    /\ response.service_status \in {SUCCESS, INSUFFICIENT_PACKETS}

\* any(responses) in place of all(responses)
AnyValid(resps) == \E k \in 1..Len(resps) : resps[k].service_status \in {SUCCESS, INSUFFICIENT_PACKETS}

\* only the last response looked at
AllValidLast(resps) == resps = <<>> \/ is_valid(resps[Len(resps)])

\* all(responses)
AllValid(resps) == \A k \in 1..Len(resps) : is_valid(resps[k])

\* ReadTagFragmentedResponsePacket._parse_reply
ParseFragmentedReply(reply) ==
    LET struct == Slice(reply.data, 0, 2) = STRUCTURE_READ_REPLY
        err == IF reply.service_status \in {SUCCESS, INSUFFICIENT_PACKETS}
               THEN "" ELSE StatusError(reply.service_status)
    IN [cls |-> "ReadTagFragmentedResponsePacket",
        service_status |-> reply.service_status,
        error |-> err,
        value_bytes |-> IF struct THEN Slice(reply.data, 4, Len(reply.data))
                        ELSE Slice(reply.data, 2, Len(reply.data)),
        data_type |-> IF struct THEN Slice(reply.data, 0, 4)
                      ELSE Slice(reply.data, 0, 2),
        value |-> <<>>]

\* ReadTagFragmentedResponsePacket.parse_value
parse_value(response, tinfo, elems) ==
    IF is_valid(response)
    THEN [response EXCEPT
            !.value = <<ParseReadReply(response.data_type \o response.value_bytes,
                                       tinfo, elems)>>]
    ELSE [response EXCEPT !.value = <<>>]

\* WriteTagFragmentedResponsePacket(reply)
ParseWriteReply(reply) ==
    [cls |-> "WriteTagFragmentedResponsePacket",
     service_status |-> reply.service_status,
     error |-> IF reply.service_status = SUCCESS THEN ""
               ELSE StatusError(reply.service_status)]

\* the failed response given the generic message whatever self.error holds
FailedResponseGeneric(cls, err) ==
    [cls |-> cls, service_status |-> -1, error |-> GenericError]

\* failed_response = ...(); failed_response._error = self.error or '...'
FailedResponse(cls, err) ==
    [cls |-> cls, service_status |-> -1,
     error |-> IF err # "" THEN err ELSE GenericError]

(* ------------------------------------------------------ fragmented read *)
\* what the target may answer to a ReadFragmented request
ReadHeader(tinfo) ==
    IF tinfo.tag_type = "struct" THEN <<160, 2, 7, 0>> ELSE <<196, 0>>
ReadPayloads == SeqsUpTo({1, 2}, MaxChunk)

\* the offset advanced by the whole reply data, type header included
NextReadOffsetData(off, response) ==
    IF response.service_status = INSUFFICIENT_PACKETS
    THEN off + Len(response.data_type) + Len(response.value_bytes)
    ELSE NoOffset

\* lines 177-181: the offset of the next round, or None
NextReadOffset(off, response) ==
    IF response.service_status = INSUFFICIENT_PACKETS
    THEN off + Len(response.value_bytes)
    ELSE NoOffset

\* the final response parsed without the join of the earlier chunks
ReassembleLastOnly(resps, tinfo, elems) == parse_value(resps[Len(resps)], tinfo, elems)

\* lines 184-185: the reassembled final response
Reassemble(resps, tinfo, elems) ==
    parse_value([resps[Len(resps)] EXCEPT
                    !.value_bytes = Join([k \in 1..Len(resps) |-> resps[k].value_bytes])],
                tinfo, elems)

\* the next request built without waiting for the reply
AfterSendNoWait == "send"

\* the position reached after a message was handed to _send
AfterSend == "recv"

\* send(), line 163-165: entry
ReadBegin ==
    /\ kind = "read" /\ pc = "start"
    /\ IF error = ""
       THEN /\ offset' = 0
            /\ pc' = "send"
            /\ result' = result
       ELSE /\ result' = FailedResponse("ReadTagResponsePacket", error)
            /\ pc' = "done"
            /\ offset' = offset
    /\ responses' = <<>>
    /\ UNCHANGED <<opVars, rmwVars, segments, i, sent, received, replies>>

\* send(), lines 166-172: build and send the request of this round
ReadSend ==
    /\ kind = "read" /\ pc = "send" /\ offset # NoOffset
    /\ sent' = Append(sent, [service |-> "read_tag_fragmented",
                             request_path |-> request_path,
                             elements |-> elements,
                             offset |-> offset])
    /\ pc' = AfterSend
    /\ UNCHANGED <<opVars, rmwVars, offset, segments, i, responses, result,
                   received, replies>>

\* send(), lines 173-181: receive the reply, record it, advance or stop
ReadReceive ==
    /\ kind = "read" /\ pc = "recv"
    /\ \E status \in {SUCCESS, INSUFFICIENT_PACKETS} \cup FailStatuses,
          payload \in ReadPayloads :
          /\ status = INSUFFICIENT_PACKETS => Len(sent) <= MaxRounds
          /\ LET reply == [service_status |-> status, data |-> ReadHeader(tag_info) \o payload]
                 response == ParseFragmentedReply(reply)
                 next == NextReadOffset(offset, response)
             IN /\ replies' = Append(replies, [service_status |-> status,
                                               payload |-> payload])
                /\ received' = received + 1
                /\ responses' = Append(responses, response)
                /\ offset' = next
                /\ pc' = IF next = NoOffset THEN "finish" ELSE "send"
    /\ UNCHANGED <<opVars, rmwVars, segments, i, result, sent>>

\* send(), lines 182-192: the reassembled response, or the failed one
ReadFinish ==
    /\ kind = "read" /\ pc = "finish"
    /\ result' = IF AllValid(responses)
                 THEN Reassemble(responses, tag_info, elements)
                 ELSE FailedResponse("ReadTagResponsePacket", error)
    /\ pc' = "done"
    /\ UNCHANGED <<opVars, rmwVars, offset, segments, i, responses, sent,
                   received, replies>>

(* ----------------------------------------------------- fragmented write *)
data_type == tag_info.data_type_name
packed_type == PackedDataType(tag_info.tag_type, data_type)

\* line 294: the per-segment budget
segment_size == connection_size - (Len(request_path) + Len(packed_type) + PathOverhead)

\* the trailing partial segment dropped
SegmentsWholeOnly(val, size) ==
    IF size < 0 \/ Len(val) = 0 THEN <<>>
    ELSE [k \in 1..(Len(val) \div size) |-> SubSeq(val, (k - 1) * size + 1, k * size)]

\* lines 298-299: value[i: i + size] for i in range(0, len(value), size), size # 0
Segments(val, size) ==
    IF size < 0 \/ Len(val) = 0 THEN <<>>
    ELSE [k \in 1..((Len(val) + size - 1) \div size) |->
             Slice(val, (k - 1) * size, k * size)]

\* line 297: pack_func
pack_func(tinfo, x) ==
    IF tinfo.tag_type = "atomic" THEN Pack(tinfo.data_type_name, x) ELSE <<x>>

\* line 305: segment_bytes
SegmentBytes(segment, is_bytes, tinfo) ==
    IF is_bytes THEN segment
    ELSE Join([k \in 1..Len(segment) |-> pack_func(tinfo, segment[k])])

\* the offset advanced by the number of elements of the segment
NextWriteOffsetElements(off, segment, segment_bytes) == off + Len(segment)

\* line 321: offset += len(segment_bytes)
NextWriteOffset(off, segment, segment_bytes) == off + Len(segment_bytes)

\* line 304: the for loop goes on to the next segment, whatever the response
NextWritePc(idx, nseg, response) == IF idx >= nseg THEN "finish" ELSE "send"

\* send(), lines 292-302: entry
WriteBegin ==
    /\ kind = "write" /\ pc = "start"
    /\ IF error # ""
       THEN /\ result' = FailedResponse("WriteTagFragmentedResponsePacket", error)
            /\ pc' = "done"
            /\ UNCHANGED <<segments, offset, i>>
       ELSE IF segment_size = 0
       THEN \* range() arg 3 must not be zero
            /\ result' = [cls |-> "exception", type |-> "ValueError"]
            /\ pc' = "raised"
            /\ UNCHANGED <<segments, offset, i>>
       ELSE /\ segments' = Segments(value, segment_size)
            /\ offset' = 0
            /\ i' = 1
            /\ pc' = IF segments' = <<>> THEN "finish" ELSE "send"
            /\ result' = result
    /\ responses' = <<>>
    /\ UNCHANGED <<opVars, rmwVars, sent, received, replies>>

\* send(), lines 304-316: build and send the request of segment i
WriteSend ==
    /\ kind = "write" /\ pc = "send"
    /\ sent' = Append(sent, [service |-> "write_tag_fragmented",
                             request_path |-> request_path,
                             packed_type |-> packed_type,
                             elements |-> elements,
                             offset |-> offset,
                             segment_bytes |->
                                 SegmentBytes(segments[i], value_is_bytes, tag_info)])
    /\ pc' = AfterSend
    /\ UNCHANGED <<opVars, rmwVars, offset, segments, i, responses, result,
                   received, replies>>

\* send(), lines 317-322: receive the reply, record it, advance the offset
WriteReceive ==
    /\ kind = "write" /\ pc = "recv"
    /\ \E status \in {SUCCESS, 4} :
          LET response == ParseWriteReply([service_status |-> status, data |-> <<>>])
          IN /\ replies' = Append(replies, [service_status |-> status,
                                            payload |-> <<>>])
             /\ received' = received + 1
             /\ responses' = Append(responses, response)
             /\ offset' = NextWriteOffset(offset, segments[i],
                              SegmentBytes(segments[i], value_is_bytes, tag_info))
             /\ i' = i + 1
             /\ pc' = NextWritePc(i, Len(segments), response)
    /\ UNCHANGED <<opVars, rmwVars, segments, result, sent>>

\* send(), lines 324-332: the last response, or the failed one
WriteFinish ==
    /\ kind = "write" /\ pc = "finish"
    /\ IF AllValid(responses)
       THEN IF responses = <<>>
            THEN \* responses[-1]: list index out of range
                 /\ result' = [cls |-> "exception", type |-> "IndexError"]
                 /\ pc' = "raised"
            ELSE /\ result' = responses[Len(responses)]
                 /\ pc' = "done"
       ELSE /\ result' = FailedResponse("WriteTagFragmentedResponsePacket", error)
            /\ pc' = "done"
    /\ UNCHANGED <<opVars, rmwVars, offset, segments, i, responses, sent,
                   received, replies>>

(* ---------------------------------------------------- read-modify-write *)
\* the bit indexes set_bit is called with
BitInputs == {0, 3, 31, 32, 35, 63}

\* the index used as given, for DWORD too
EffectiveBitAsGiven(dtype, bit) == bit

\* lines 370-371
EffectiveBit(dtype, bit) == IF dtype = "DWORD" THEN bit % 32 ELSE bit

\* the false branch leaving _or_mask alone
NextOrMaskKeep(mask, bit, val) == IF val THEN mask \cup {bit} ELSE mask

\* lines 373-378: the new _or_mask
NextOrMask(mask, bit, val) == IF val THEN mask \cup {bit} ELSE mask \ {bit}

\* the true branch leaving _and_mask alone
\* the AND mask cleared at the bit whatever the value
NextAndMaskClear(mask, bit, val) == mask \ {bit}

NextAndMaskKeep(mask, bit, val) == IF val THEN mask ELSE mask \ {bit}

\* lines 373-378: the new _and_mask
NextAndMask(mask, bit, val) == IF val THEN mask \cup {bit} ELSE mask \ {bit}

\* set_bit(bit, value, request_id); the bits are set before the request is built
SetBit ==
    /\ kind = "rmw" /\ pc = "start" /\ Len(bits) < MaxSetBits
    /\ \E bit \in BitInputs, val \in BOOLEAN :
          LET b == EffectiveBit(data_type, bit)
          IN /\ or_mask' = NextOrMask(or_mask, b, val)
             /\ and_mask' = NextAndMask(and_mask, b, val)
             /\ bits' = Append(bits, b)
             /\ calls' = Append(calls, [bit |-> bit, value |-> val])
    /\ UNCHANGED <<opVars, pc, offset, segments, i, responses, result, sent,
                   received, replies, msg>>

\* bit b of an integer held as the set of its 1 bits
Bit(mask, b) == IF b \in mask THEN 1 ELSE 0

\* Pack.ulint(mask): the 8 little-endian bytes of the 64-bit mask
PackUlint(mask) ==
    [k \in 1..8 |->
        LET b0 == 8 * (k - 1)
        IN Bit(mask, b0) + 2 * Bit(mask, b0 + 1) + 4 * Bit(mask, b0 + 2)
           + 8 * Bit(mask, b0 + 3) + 16 * Bit(mask, b0 + 4) + 32 * Bit(mask, b0 + 5)
           + 64 * Bit(mask, b0 + 6) + 128 * Bit(mask, b0 + 7)]

\* the mask as the end of a slice of 8 bytes: its value, or 8 when that is more
MaskAsSliceEnd(mask) ==
    IF \E b \in mask : b >= 3 THEN 8
    ELSE Bit(mask, 0) + 2 * Bit(mask, 1) + 4 * Bit(mask, 2)

\* self._mask_size = DataTypeSize.get(self.data_type)
mask_size == TypeWidth(data_type)

\* Services.read_modify_write
ReadModifyWriteService == <<78>>

\* line 391: Pack.ulint(self._and_mask)[:self._and_mask]
AndMaskBytes(mask, size) == Slice(PackUlint(mask), 0, MaskAsSliceEnd(mask))

\* line 390: Pack.ulint(self._or_mask)[:self._mask_size]
OrMaskBytes(mask, size) == Slice(PackUlint(mask), 0, size)

\* build_request, lines 386-392
BuildRequest ==
    /\ kind = "rmw" /\ pc = "start"
    /\ msg' = <<ReadModifyWriteService,
                request_path,
                PackLE(mask_size, 2),
                OrMaskBytes(or_mask, mask_size),
                AndMaskBytes(and_mask, mask_size)>>
    /\ pc' = "built"
    /\ UNCHANGED <<opVars, and_mask, or_mask, bits, calls, offset, segments, i,
                   responses, result, sent, received, replies>>

(* -------------------------------------------------------- multi-service *)
\* Unpack.uint: 2 little-endian bytes
UnpackUint(b) == b[1] + 256 * b[2]

\* Services.multiple_service_request and request_path(ClassCode.message_router, 1)
MultiServiceHeader == <<<<10>>, <<2, 32, 2, 36, 1>>>>

\* the read requests a batch is made of; a request whose path could not be
\* built has request_path None and the error of line 80
SubRequests ==
    {[tag_service |-> <<76>>, request_path |-> <<145, 1, 65, 0>>, elements |-> 1,
      error |-> "", response_class |-> "ReadTagResponsePacket"],
     [tag_service |-> <<76>>, request_path |-> <<145, 2, 84, 49, 40, 3>>, elements |-> 2,
      error |-> "", response_class |-> "ReadTagResponsePacket"],
     [tag_service |-> <<76>>, request_path |-> <<>>, elements |-> 1,
      error |-> ReadPathError, response_class |-> "ReadTagResponsePacket"]}

\* line 482: tag_service + request_path + Pack.uint(elements)
RequestBody(request) ==
    request.tag_service \o request.request_path \o PackLE(request.elements, 2)

\* the table taken to start at 2 * count, the count field forgotten
FirstOffsetNoCount(num_requests) == num_requests * 2

\* line 476: offset = 2 + (num_requests * 2)
FirstOffset(num_requests) == 2 + (num_requests * 2)

RECURSIVE Offsets(_, _)
\* lines 484-486: the running offset of each message
Offsets(off, messages) ==
    IF messages = <<>> THEN <<>>
    ELSE <<PackLE(off, 2)>> \o Offsets(off + Len(Head(messages)), Tail(messages))

\* build_message, lines 472-488
MultiBuildMessage ==
    /\ kind = "multi" /\ pc = "start"
    /\ IF \E k \in 1..Len(requests) : requests[k].error # ""
       THEN \* b''.join over a request_path that is None
            /\ result' = [cls |-> "exception", type |-> "TypeError"]
            /\ pc' = "raised"
            /\ msg' = msg
       ELSE LET num_requests == Len(requests)
                messages == [k \in 1..num_requests |-> RequestBody(requests[k])]
            IN /\ msg' = MultiServiceHeader \o <<PackLE(num_requests, 2)>>
                           \o Offsets(FirstOffset(num_requests), messages) \o messages
               /\ result' = [cls |-> "bytes", bytes |-> Join(msg')]
               /\ pc' = "built"
    /\ UNCHANGED <<opVars, and_mask, or_mask, bits, calls, offset, segments, i,
                   responses, sent, received, replies>>

\* what the target may answer for one operation of the batch
ReplyBodies == {<<204, 0>>, <<204, 0, 7>>, <<204, 4, 0, 0, 1>>}

\* a well-formed reply: count, strictly increasing offsets from just past the
\* table, then the sub-replies
MultiReplyData(bodies) ==
    PackLE(Len(bodies), 2) \o Join(Offsets(2 + 2 * Len(bodies), bodies)) \o Join(bodies)

\* the slices paired with zip, which drops the last one
ReplyDataZip(data, offsets) ==
    [k \in 1..(Len(offsets) - 1) |-> Slice(data, offsets[k], offsets[k + 1])]

\* lines 412-414: data[i:j] for i, j in zip_longest(start, end)
ReplyData(data, offsets) ==
    [k \in 1..Len(offsets) |->
        IF k < Len(offsets) THEN Slice(data, offsets[k], offsets[k + 1])
        ELSE Slice(data, offsets[k], Len(data))]

Padding == [k \in 1..PaddingLen |-> 0]

\* _parse_reply, lines 407-421
MultiParseReply ==
    /\ kind = "multi" /\ pc = "built"
    /\ \E bodies \in SeqsUpTo(ReplyBodies, MaxBatch) :
          LET data == MultiReplyData(bodies)
              num_replies == UnpackUint(data)
              offset_data == Slice(data, 2, 2 + 2 * num_replies)
              offsets == [k \in 1..(Len(offset_data) \div 2) |->
                             UnpackUint(Slice(offset_data, 2 * (k - 1), 2 * k))]
              reply_data == ReplyData(data, offsets)
          IN /\ replies' = Append(replies, [service_status |-> SUCCESS,
                                            payload |-> data, bodies |-> bodies])
             /\ received' = received + 1
             /\ IF offsets = <<>>
                THEN \* next(end) on an exhausted iterator
                     /\ result' = [cls |-> "exception", type |-> "StopIteration"]
                     /\ pc' = "raised"
                     /\ responses' = responses
                ELSE /\ responses' =
                          [k \in 1..Min(Len(reply_data), Len(requests)) |->
                              [cls |-> requests[k].response_class,
                               request |-> k,
                               raw_data |-> Padding \o reply_data[k]]]
                     /\ result' = result
                     /\ pc' = "done"
    /\ UNCHANGED <<opVars, rmwVars, offset, segments, i, sent>>

(* --------------------------------------------------------- construction *)
\* the names DataType and DataTypeSize know, of those used here
KnownTypes == {"SINT", "INT", "DINT", "DWORD", "LINT"}

RequestError == [cls |-> "exception", type |-> "RequestError"]

\* ReadTagRequestPacket._setup_message, lines 75-81; a path that is None is
\* held as the empty path
ReadSetupMessage ==
    /\ kind = "new_read" /\ pc = "start"
    /\ \E path_is_none \in BOOLEAN :
          /\ error' = IF path_is_none THEN ReadPathError ELSE error
          /\ msg' = <<<<76>>, IF path_is_none THEN <<>> ELSE request_path,
                      PackLE(elements, 2)>>
    /\ pc' = "constructed"
    /\ UNCHANGED <<kind, tag_info, elements, value, value_is_bytes, connection_size,
                   requests, and_mask, or_mask, bits, calls, offset, segments, i,
                   responses, result, sent, received, replies>>

\* WriteTagRequestPacket.__init__, lines 208-245
WriteInit ==
    /\ kind = "new_write" /\ pc = "start"
    /\ \E path_is_none \in BOOLEAN :
          IF path_is_none
          THEN /\ error' = WritePathError
               /\ pc' = "constructed"
               /\ UNCHANGED <<msg, result>>
          ELSE IF \/ tag_info.tag_type = "struct" /\ ~value_is_bytes
                  \/ tag_info.tag_type # "struct" /\ data_type \notin KnownTypes
          THEN /\ result' = RequestError
               /\ pc' = "raised"
               /\ UNCHANGED <<msg, error>>
          ELSE /\ msg' = <<<<77>>, request_path, packed_type, PackLE(elements, 2), value>>
               /\ pc' = "constructed"
               /\ UNCHANGED <<error, result>>
    /\ UNCHANGED <<kind, tag_info, elements, value, value_is_bytes, connection_size,
                   requests, and_mask, or_mask, bits, calls, offset, segments, i,
                   responses, sent, received, replies>>

\* ReadModifyWriteRequestPacket.__init__, lines 347-367
ReadModifyWriteInit ==
    /\ kind = "new_rmw" /\ pc = "start"
    /\ \E path_is_none \in BOOLEAN :
          IF data_type \notin KnownTypes
          THEN /\ result' = RequestError
               /\ pc' = "raised"
               /\ error' = error
          ELSE /\ error' = IF path_is_none THEN WritePathError ELSE error
               /\ pc' = "constructed"
               /\ result' = result
    /\ UNCHANGED <<kind, tag_info, elements, value, value_is_bytes, connection_size,
                   requests, rmwVars, offset, segments, i, responses, sent, received,
                   replies>>

(* ------------------------------------------------------- decoding a read *)
ParseError == "Failed to parse reply"

\* lines 55-58: the except branch
FailedParse(cls, status) ==
    [cls |-> cls, service_status |-> status, error |-> ParseError, value |-> <<>>]

\* ReadTagResponsePacket._parse_reply, lines 50-58.  The parse of the
\* enclosing packet either completes or raises, and so does parse_read_reply.
ReadParseReply ==
    /\ kind = "decode_read" /\ pc = "start"
    /\ \E base_ok \in BOOLEAN, decode_ok \in BOOLEAN, status \in {SUCCESS, 4},
          data \in {<<196, 0, 1, 0, 0, 0>>, <<196, 0>>} :
          LET cls == "ReadTagResponsePacket"
              valid == base_ok /\ status = SUCCESS
          IN /\ replies' = Append(replies, [service_status |-> status, payload |-> data,
                                            base_ok |-> base_ok, decode_ok |-> decode_ok])
             /\ responses' =
                  <<IF ~base_ok THEN FailedParse(cls, -1)
                    ELSE IF valid /\ ~decode_ok THEN FailedParse(cls, status)
                    ELSE [cls |-> cls, service_status |-> status,
                          error |-> IF status = SUCCESS THEN "" ELSE StatusError(status),
                          value |-> IF valid
                                    THEN <<ParseReadReply(data, tag_info, elements)>>
                                    ELSE <<>>]>>
    /\ received' = received + 1
    /\ pc' = "done"
    /\ UNCHANGED <<opVars, rmwVars, offset, segments, i, result, sent>>

\* ReadTagFragmentedResponsePacket._parse_reply, lines 102-109: the inherited
\* parse under dont_parse, then self.data[:2] outside any try
FragmentedParseReply ==
    /\ kind = "decode_fragmented" /\ pc = "start"
    /\ \E base_ok \in BOOLEAN, decode_ok \in BOOLEAN, status \in {SUCCESS, 4},
          data \in {<<196, 0, 1, 0, 0, 0>>, <<160, 2, 7, 0, 1, 2>>} :
          /\ replies' = Append(replies, [service_status |-> status, payload |-> data,
                                         base_ok |-> base_ok, decode_ok |-> decode_ok])
          /\ IF base_ok
             THEN /\ responses' = <<ParseFragmentedReply([service_status |-> status,
                                                          data |-> data])>>
                  /\ pc' = "parsed"
                  /\ result' = result
             ELSE \* self.data is still None: 'NoneType' object is not subscriptable
                  /\ responses' = <<FailedParse("ReadTagFragmentedResponsePacket", -1)>>
                  /\ result' = [cls |-> "exception", type |-> "TypeError"]
                  /\ pc' = "raised"
    /\ received' = received + 1
    /\ UNCHANGED <<opVars, rmwVars, offset, segments, i, sent>>

\* ReadTagFragmentedResponsePacket.parse_value, lines 111-121
FragmentedParseValue ==
    /\ kind = "decode_fragmented" /\ pc = "parsed"
    /\ responses' =
         <<IF is_valid(responses[1]) /\ ~replies[1].decode_ok
           THEN [responses[1] EXCEPT !.value = <<>>, !.error = ParseError]
           ELSE parse_value(responses[1], tag_info, elements)>>
    /\ pc' = "done"
    /\ UNCHANGED <<opVars, rmwVars, offset, segments, i, result, sent, received,
                   replies>>

(* ----------------------------------------------------------------- runs *)
InitRead ==
    /\ kind = "read"
    /\ error \in {"", ReadPathError}
    /\ tag_info \in {[tag_type |-> "atomic", data_type_name |-> "DINT"],
                     [tag_type |-> "struct", data_type_name |-> "UDT"]}
    /\ elements \in 1..2
    /\ value = <<>> /\ value_is_bytes = TRUE /\ connection_size = MaxConn
    /\ requests = <<>>

\* a constructed WriteTagFragmentedRequestPacket: a struct value is bytes
InitWrite ==
    /\ kind = "write"
    /\ error \in {"", WritePathError}
    /\ tag_info \in {[tag_type |-> "atomic", data_type_name |-> "SINT"],
                     [tag_type |-> "atomic", data_type_name |-> "INT"],
                     [tag_type |-> "atomic", data_type_name |-> "DINT"],
                     [tag_type |-> "struct", data_type_name |-> "UDT"]}
    /\ value \in SeqsUpTo({1, 2}, MaxLen)
    /\ value_is_bytes \in BOOLEAN
    /\ tag_info.tag_type = "struct" => value_is_bytes
    /\ elements = IF value_is_bytes THEN 1 ELSE Len(value)
    /\ connection_size \in 16..MaxConn
    /\ requests = <<>>

\* a constructed ReadModifyWriteRequestPacket: its type has a mask size
InitRMW ==
    /\ kind = "rmw"
    /\ error = ""
    /\ tag_info \in {[tag_type |-> "atomic", data_type_name |-> t] :
                        t \in {"SINT", "INT", "DINT", "DWORD", "LINT"}}
    /\ elements = 0
    /\ value = <<>> /\ value_is_bytes = TRUE /\ connection_size = MaxConn
    /\ requests = <<>>

InitRun ==
    /\ pc = "start" /\ offset = 0 /\ segments = <<>> /\ i = 0
    /\ responses = <<>> /\ result = NoResult
    /\ sent = <<>> /\ received = 0 /\ replies = <<>>
    /\ and_mask = 0..(MaskBits - 1) /\ or_mask = {} /\ bits = <<>> /\ calls = <<>>
    /\ msg = <<>>

\* a constructed MultiServiceRequestPacket
InitMulti ==
    /\ kind = "multi"
    /\ error = ""
    /\ tag_info = [tag_type |-> "atomic", data_type_name |-> "DINT"]
    /\ elements = 0
    /\ value = <<>> /\ value_is_bytes = TRUE /\ connection_size = MaxConn
    /\ requests \in SeqsUpTo(SubRequests, MaxBatch)

\* the arguments of a request about to be constructed
InitNew ==
    /\ kind \in {"new_read", "new_write", "new_rmw"}
    /\ error = ""
    /\ tag_info \in {[tag_type |-> "atomic", data_type_name |-> "DINT"],
                     [tag_type |-> "atomic", data_type_name |-> "STRING20"],
                     [tag_type |-> "struct", data_type_name |-> "UDT"]}
    /\ elements = 1
    /\ value = <<1>> /\ value_is_bytes \in BOOLEAN /\ connection_size = MaxConn
    /\ requests = <<>>

\* a read response about to be parsed from its reply
InitDecode ==
    /\ kind \in {"decode_read", "decode_fragmented"}
    /\ error = ""
    /\ tag_info \in {[tag_type |-> "atomic", data_type_name |-> "DINT"],
                     [tag_type |-> "struct", data_type_name |-> "UDT"]}
    /\ elements = 1
    /\ value = <<>> /\ value_is_bytes = TRUE /\ connection_size = MaxConn
    /\ requests = <<>>

Init ==
    InitRun /\ (InitRead \/ InitWrite \/ InitRMW \/ InitMulti \/ InitNew \/ InitDecode)

Next ==
    \/ ReadBegin \/ ReadSend \/ ReadReceive \/ ReadFinish
    \/ WriteBegin \/ WriteSend \/ WriteReceive \/ WriteFinish
    \/ SetBit \/ BuildRequest
    \/ MultiBuildMessage \/ MultiParseReply
    \/ ReadSetupMessage \/ WriteInit \/ ReadModifyWriteInit
    \/ ReadParseReply \/ FragmentedParseReply \/ FragmentedParseValue

Spec == Init /\ [][Next]_vars

\* send() runs its loop to the end: every round trip completes and the code
\* after it is executed
FairSpec == Init /\ [][Next]_vars /\ WF_vars(Next)

(* --------------------------------------------------------------- claims *)
ValidStatuses == {SUCCESS, INSUFFICIENT_PACKETS}
Payloads(rs) == [k \in 1..Len(rs) |-> rs[k].payload]
SegmentBytesSent(ms) == [k \in 1..Len(ms) |-> ms[k].segment_bytes]
\* the bytes the whole value has on the wire
WireBytes ==
    IF value_is_bytes THEN value
    ELSE Join([k \in 1..Len(value) |-> Pack(data_type, value[k])])
\* the value of the last set_bit call the request recorded for bit b
Written(b) == {k \in 1..Len(bits) : bits[k] = b}
LastWritten(b) == calls[CHOOSE k \in Written(b) : \A j \in Written(b) : j <= k].value

C4_StopsAtFirstFailure ==
    kind = "write" =>
        \A k \in 1..Len(sent) : \A j \in 1..(k - 1) : replies[j].service_status = SUCCESS

\* C5: when all rounds of a fragmented write succeeded, the segments sent lie
\* one after the other without gap or overlap and together are exactly the
\* value's wire bytes: their lengths sum to len(value) for a bytes value and to
\* elements * byte width of the type for a value packed element-wise.
C5_SegmentsCoverValue ==
    (/\ kind = "write" /\ pc = "done"
     /\ \A j \in 1..Len(replies) : replies[j].service_status = SUCCESS
     /\ error = "")
    => /\ Join(SegmentBytesSent(sent)) = WireBytes
       /\ \A k \in 1..Len(sent) :
             /\ sent[k].segment_bytes =
                   Slice(WireBytes, sent[k].offset,
                         sent[k].offset + Len(sent[k].segment_bytes))
             /\ k > 1 => sent[k].offset =
                            sent[k - 1].offset + Len(sent[k - 1].segment_bytes)
       /\ sent[1].offset = 0
       /\ SumLen(SegmentBytesSent(sent)) =
             IF value_is_bytes THEN Len(value) ELSE elements * TypeWidth(data_type)

C5_Witness ==
    /\ kind = "write" /\ pc = "done" /\ result.error = ""
    /\ ~value_is_bytes /\ data_type = "INT" /\ value = <<1, 2, 2>>
    /\ Len(sent) = 2
    /\ sent[2].segment_bytes = <<2, 0>>

\* C6 as claimed: every segment a fragmented write sends is at most
\* segment_size = connection size - (path + packed type + 9) bytes long on the
\* wire, for bytes values and for values packed element-wise alike.
C6_SegmentWithinBudget ==
    kind = "write" =>
        \A k \in 1..Len(sent) : Len(sent[k].segment_bytes) <= segment_size

\* C7: the offset of each WriteFragmented request is the number of wire bytes
\* of all segments sent before it in the operation (0 for the first), not the
\* number of elements.
C7_OffsetIsBytesSent ==
    kind = "write" =>
        \A k \in 1..Len(sent) :
            sent[k].offset = SumLen(SegmentBytesSent(SubSeq(sent, 1, k - 1)))

C7_Witness ==
    /\ kind = "write" /\ ~value_is_bytes /\ data_type = "DINT"
    /\ Len(sent) = 3 /\ Len(segments[1]) = 1
    /\ sent[2].offset = 4 /\ sent[3].offset = 8

\* C8 as claimed: a fragmented write of a zero-length value without build
\* error (and with a positive segment budget) sends exactly one request, an
\* empty segment at offset 0, and returns the response of that round.
C8_EmptyValueStillSent ==
    (/\ kind = "write" /\ error = "" /\ value = <<>> /\ segment_size > 0
     /\ pc \in {"done", "raised"})
    => /\ pc = "done"
       /\ Len(sent) = 1
       /\ sent[1].offset = 0 /\ sent[1].segment_bytes = <<>>
       /\ result = responses[1]

\* C9: during a fragmented read or write a request is sent only when every
\* earlier request has been answered: at most one request is outstanding, and
\* none is when the next one is about to be built.
C9_OneOutstanding ==
    kind \in {"read", "write"} =>
        /\ Len(sent) - received \in {0, 1}
        /\ Len(sent) - received = 1 <=> pc = "recv"
        /\ received = Len(responses)

C9_Witness ==
    /\ kind = "write" /\ pc = "recv" /\ Len(sent) = 3 /\ received = 2

\* C10: after any sequence of set_bit calls, each bit written at least once
\* has in both masks the value of the last call for it, and each bit never
\* written has its identity value: 1 in the AND mask, 0 in the OR mask.
C10_LastWriteWins ==
    kind = "rmw" =>
        \A b \in 0..(MaskBits - 1) :
            IF Written(b) = {}
            THEN b \in and_mask /\ b \notin or_mask
            ELSE /\ b \in or_mask <=> LastWritten(b)
                 /\ b \in and_mask <=> LastWritten(b)

C10_Witness ==
    /\ kind = "rmw" /\ data_type = "SINT"
    /\ calls = <<[bit |-> 3, value |-> TRUE], [bit |-> 3, value |-> FALSE]>>
    /\ 3 \notin or_mask /\ 3 \notin and_mask
    /\ 0 \in and_mask /\ 0 \notin or_mask

\* the bit a set_bit call would address were its index taken modulo 32
Wrapped(mask, c) == IF c.value THEN mask \cup {c.bit % 32} ELSE mask \ {c.bit % 32}
SetBitStep == kind = "rmw" /\ Len(calls') = Len(calls) + 1
\* bit b of a little-endian byte string
BitOfBytes(bytes, b) == (bytes[(b \div 8) + 1] \div (2 ^ (b % 8))) % 2 = 1

\* C11 as claimed: for every tag type 32 bits wide (DINT as well as DWORD),
\* set_bit(i, v) changes both masks as set_bit(i mod 32, v) would.
C11_WrapsEvery32BitType ==
    [][(SetBitStep /\ TypeWidth(data_type) = 4)
         => LET c == calls'[Len(calls')]
            IN /\ or_mask' = Wrapped(or_mask, c)
               /\ and_mask' = Wrapped(and_mask, c)]_vars

\* C11: for the DWORD tag type set_bit(i, v) changes both masks as
\* set_bit(i mod 32, v) would, for every bit index i >= 0; the other types,
\* 32 bits wide or not, take the index as it is given.
C11_WrapsDword ==
    [][SetBitStep
         => LET c == calls'[Len(calls')]
                asGiven(mask) == IF c.value THEN mask \cup {c.bit} ELSE mask \ {c.bit}
            IN IF data_type = "DWORD"
               THEN /\ or_mask' = Wrapped(or_mask, c)
                    /\ and_mask' = Wrapped(and_mask, c)
               ELSE /\ or_mask' = asGiven(or_mask)
                    /\ and_mask' = asGiven(and_mask)]_vars

C11_Witness ==
    /\ kind = "rmw" /\ data_type = "DWORD"
    /\ calls = <<[bit |-> 35, value |-> TRUE], [bit |-> 3, value |-> FALSE]>>
    /\ 3 \notin or_mask /\ 35 \notin or_mask /\ 3 \notin and_mask /\ 35 \in and_mask

\* C12 as claimed: the built read-modify-write body is service code, request
\* path, mask byte width, then the OR mask and the AND mask, each cut to
\* exactly the mask byte width.
C12_BothMasksCutToWidth ==
    (kind = "rmw" /\ pc = "built")
    => /\ Len(msg) = 5
       /\ msg[1] = ReadModifyWriteService /\ msg[2] = request_path
       /\ msg[3] = <<TypeWidth(data_type), 0>>
       /\ Len(msg[4]) = TypeWidth(data_type)
       /\ Len(msg[5]) = TypeWidth(data_type)
       /\ \A b \in 0..(8 * TypeWidth(data_type) - 1) :
             /\ BitOfBytes(msg[4], b) <=> b \in or_mask
             /\ BitOfBytes(msg[5], b) <=> b \in and_mask

\* C20: for every old value of the tag, new = (old AND and_mask) OR or_mask,
\* taken bit by bit over the mask width from the masks of the built request,
\* has each written bit at its last written value and each unwritten bit as
\* it was in old.
C20_MaskedWrite ==
    (kind = "rmw" /\ pc = "built")
    => \A b \in 0..(8 * TypeWidth(data_type) - 1) : \A old \in BOOLEAN :
          LET new == (old /\ BitOfBytes(msg[5], b)) \/ BitOfBytes(msg[4], b)
          IN new = IF Written(b) = {} THEN old ELSE LastWritten(b)

C20_Witness ==
    /\ kind = "rmw" /\ pc = "built" /\ data_type = "INT"
    /\ calls = <<[bit |-> 3, value |-> TRUE], [bit |-> 3, value |-> FALSE],
                 [bit |-> 0, value |-> TRUE]>>
    /\ msg[4] = <<1, 0>>
    /\ ~BitOfBytes(msg[5], 3) /\ BitOfBytes(msg[5], 0) /\ BitOfBytes(msg[5], 15)

\* C13: the message built for a batch of N operations is count, offsets,
\* bodies in request order, with offset[1] = 2 + 2 * N and each next offset
\* the previous one plus the previous body's length; the offsets increase
\* strictly and each points at its body, counted from the count field.
C13_OffsetTable ==
    (kind = "multi" /\ pc \in {"built", "done"})
    => LET N == Len(requests)
           L(k) == 1 + Len(requests[k].request_path) + 2
           off(k) == UnpackUint(msg[3 + k])
           tail == Join(SubSeq(msg, 3, Len(msg)))
       IN /\ Len(msg) = 3 + 2 * N
          /\ msg[3] = <<N, 0>>
          /\ N > 0 => off(1) = 2 + 2 * N
          /\ \A k \in 1..(N - 1) : off(k + 1) = off(k) + L(k) /\ off(k) < off(k + 1)
          /\ \A k \in 1..N :
                /\ msg[3 + N + k] = RequestBody(requests[k])
                /\ Slice(tail, off(k), off(k) + L(k)) = RequestBody(requests[k])
          /\ result.bytes = Join(SubSeq(msg, 1, 2)) \o tail
          /\ Len(tail) = 2 + 2 * N + SumLen([k \in 1..N |-> RequestBody(requests[k])])

C13_Witness ==
    /\ kind = "multi" /\ pc = "built" /\ Len(requests) = 3
    /\ requests[1].elements = 2 /\ requests[2].elements = 1 /\ requests[3].elements = 2
    /\ <<UnpackUint(msg[4]), UnpackUint(msg[5]), UnpackUint(msg[6])>> = <<8, 17, 24>>

\* C14: decoding a batch reply whose table has strictly increasing offsets
\* from just past the table hands operation i the slice [offset i, offset i+1),
\* the last one running to the end of the buffer: the slices are the
\* sub-replies in request order, without overlap or gap.
C14_Slices ==
    (kind = "multi" /\ pc = "done")
    => LET bodies == replies[1].bodies
           n == Min(Len(bodies), Len(requests))
       IN /\ Len(responses) = n
          /\ \A k \in 1..n :
                /\ responses[k].request = k
                /\ responses[k].cls = requests[k].response_class
                /\ responses[k].raw_data = Padding \o bodies[k]
          /\ Len(bodies) = Len(requests)
                => Join([k \in 1..n |-> SubSeq(responses[k].raw_data, PaddingLen + 1,
                                               Len(responses[k].raw_data))])
                   = Slice(replies[1].payload, 2 + 2 * n, Len(replies[1].payload))

C14_Witness ==
    /\ kind = "multi" /\ pc = "done" /\ Len(requests) = 3
    /\ replies[1].bodies = <<<<204, 0, 7>>, <<204, 0>>, <<204, 4, 0, 0, 1>>>>
    /\ Len(responses) = 3
    /\ Len(responses[3].raw_data) = PaddingLen + 5

C17_SegmentCount ==
    (/\ kind = "write" /\ pc = "done" /\ error = ""
     /\ Len(WireBytes) > 0 /\ segment_size > 0)
    => LET L == Len(WireBytes)
           B == segment_size
       IN /\ Len(sent) = (L + B - 1) \div B
          /\ L = B => (Len(sent) = 1 /\ sent[1].offset = 0 /\ offset = L)

\* C18: every fragmented read or write eventually returns a response, given
\* that every round trip completes and the target ends a read after finitely
\* many "insufficient packets" replies.
C18_EventuallyReturns ==
    <>(kind \in {"read", "write"} => (pc = "done" /\ result # NoResult))

\* C15: an unsupported atomic type name, a missing request path, a struct
\* value not given as bytes and a type without mask width are reported as an
\* error on the operation before any byte is sent; constructing or building
\* the operation never raises for them.
C15_BuildErrorsReported ==
    (kind \in {"new_read", "new_write", "new_rmw"} /\ pc # "start")
    => /\ pc = "constructed"
       /\ sent = <<>>
       /\ (kind = "new_write" /\ tag_info.tag_type = "struct" /\ ~value_is_bytes)
             => error # ""
       /\ (kind # "new_read" /\ tag_info.tag_type # "struct"
           /\ data_type \notin KnownTypes) => error # ""

\* C16: an exception raised while a read reply or its payload is parsed does
\* not reach the caller: the response ends with no value and an error
\* message; a response decoded without exception from a Success reply has no
\* error.
C16_DecodeNeverRaises ==
    (kind \in {"decode_read", "decode_fragmented"} /\ pc # "start")
    => /\ pc # "raised"
       /\ pc = "done"
            => LET raised == \/ ~replies[1].base_ok
                             \/ replies[1].service_status = SUCCESS /\ ~replies[1].decode_ok
               IN /\ raised => (responses[1].value = <<>> /\ responses[1].error # "")
                  /\ (~raised /\ replies[1].service_status = SUCCESS)
                        => (responses[1].error = "" /\ responses[1].value # <<>>)

C22_OrWithinAnd ==
    kind = "rmw" => or_mask \subseteq and_mask

C22_Witness ==
    /\ kind = "rmw" /\ Len(calls) = MaxSetBits
    /\ calls[1] = [bit |-> 3, value |-> FALSE]
    /\ calls[2] = [bit |-> 3, value |-> TRUE]
    /\ calls[3] = [bit |-> 0, value |-> FALSE]
    /\ or_mask = {3} /\ 3 \in and_mask /\ 0 \notin and_mask

\* C23: decoding the reply to a batch of N >= 0 operations does not raise
\* and yields exactly N sub-responses, the i-th for the i-th operation, also
\* for N = 0 and for a reply whose count differs from N.
C23_OneResponsePerRequest ==
    (kind = "multi" /\ replies # <<>>)
    => /\ pc = "done"
       /\ Len(responses) = Len(requests)
       /\ \A k \in 1..Len(responses) : responses[k].request = k
====
